---- MODULE Spec2Model ----
(***************************************************************************)
(* FIFO capital gains calculator (src/cgcalc.py).                          *)
(*                                                                         *)
(* Number representation.  The program computes with Python floats.  Here  *)
(* money is an integer number of cents and a quantity of units is an       *)
(* integer number of 1/UnitScale shares, so that every quotient and        *)
(* product the program forms is an exact rational num/den and round(x, 2)  *)
(* is round2(num, den): the nearest whole cent, ties to the even cent      *)
(* (Python 3 round()).  Binary representation error of floats is not       *)
(* modelled.                                                               *)
(***************************************************************************)
EXTENDS Integers, Sequences, FiniteSets, TLC

\* ------------------------------------------------------------- bounds ----
MaxTrades == 3          \* longest trade list handed to the engine
MaxUnits  == 3          \* largest units_ of a trade, in 1/UnitScale shares
UnitScale == 2          \* units are counted in halves of a share
MaxRows   == 2          \* most data rows the csv reader yields
MaxList   == 2          \* longest trade list drawn as a whole

Symbols == {"AAA", "BBB"}
Values  == {100, 125}                  \* total value of a trade, cents
Units   == 0 .. MaxUnits                    \* abs(float(..)) is >= 0

\* Trade.__init__: the four frozen slots of a trade
Trade(stockType, units, isBuy, value) ==
    [stockType_ |-> stockType, units_ |-> units, isBuy_ |-> isBuy, value_ |-> value]

TradeSet == { Trade(s, u, b, v) : s \in Symbols, u \in Units, b \in BOOLEAN, v \in Values }

NoTrade == Trade("", 0, FALSE, 0)

VARIABLES
    pc,                   \* position in calculate_capital_gains
    ntrades,              \* len(trades) of the list being iterated
    n,                    \* trades already taken from the list
    trade,                \* loop variable of the for loop
    holdings,             \* dict: symbol -> deque of lots
    total_gains,
    net_gains,
    units_to_sell,
    sell_price_per_unit,
    result,               \* the returned tuple, <<>> before the return
    exc,                  \* type of the exception raised, "" if none
    msg,                  \* str(e) of that exception
    \* history variables, read by no action guard
    holdings0,            \* holdings when the current trade was taken
    gains,                \* every per-lot gain, in the order it was added
    iters,                \* executions of the while body for the current sell
    oversold,             \* symbols that had excess units dropped by a sell
    \* the command line program: lex_csv and the __main__ block
    cpc,                  \* position in __main__ / lex_csv
    cols,                 \* the four column indices found in the heading
    tradeList,            \* lex_csv's tradeList
    nrows,                \* data rows the reader has yielded
    stdout,               \* lines printed
    status                \* "" while running, then how the process ended

engine == << pc, ntrades, n, trade, holdings, total_gains, net_gains,
             units_to_sell, sell_price_per_unit, result,
             holdings0, gains, iters, oversold >>

cli == << cpc, cols, tradeList, nrows, stdout, status >>

vars == << engine, exc, msg, cli >>

\* ------------------------------------------------------ pure helpers ----

\* round(num/den, 2) on cents, den > 0: nearest integer, ties to even
round2(num, den) ==
    LET q == num \div den
        r == num % den
    IN  IF 2 * r < den THEN q
        ELSE IF 2 * r > den THEN q + 1
        ELSE IF q % 2 = 0 THEN q ELSE q + 1

\* trade.value_ / trade.units_ rounded: cents per whole share
PricePerUnit(t) == round2(t.value_ * UnitScale, t.units_)

Gain_Swapped(sell_ppu, buy_ppu, units) == round2((buy_ppu - sell_ppu) * units, UnitScale)

\* round((sell_price_per_unit - buy_price_per_unit) * units, 2)
Gain(sell_ppu, buy_ppu, units) == round2((sell_ppu - buy_ppu) * units, UnitScale)

AddTotal_Always(total, gain) == total + gain

\* if gain >= 0: total_gains += gain
AddTotal(total, gain) == IF gain >= 0 THEN total + gain ELSE total

\* if symbol not in holdings: holdings[symbol] = deque()
SetDefault(h, s) ==
    [x \in (DOMAIN h) \cup {s} |-> IF x \in DOMAIN h THEN h[x] ELSE << >>]

\* a lot of the deque: (units, price per unit); id is the index of the buy
\* that appended it and orig its units at that time (history fields)
Lot(units, price, id, orig) == [units |-> units, price |-> price, id |-> id, orig |-> orig]

DequeAppend_Overwrite(q, lot) == << lot >>

\* holdings[symbol].append(lot)
DequeAppend(q, lot) == Append(q, lot)

Front_Newest(q) == q[Len(q)]

\* holdings[symbol][0]
Front(q) == q[1]

PopLeft_Forgotten(q) == q

\* holdings[symbol].popleft()
PopLeft(q) == Tail(q)

SetFront_Requeue(q, lot) == Append(Tail(q), lot)

\* holdings[symbol][0] = lot
SetFront(q, lot) == [q EXCEPT ![1] = lot]

FullyConsumed_Strict(buy_units, to_sell) == buy_units < to_sell

\* if buy_units <= units_to_sell
FullyConsumed(buy_units, to_sell) == buy_units <= to_sell

\* while units_to_sell > 0 and holdings[symbol]
WhileCond(to_sell, q) == to_sell > 0 /\ q # << >>

EmptyDict == [x \in {} |-> << >>]

NoCols == [symbol |-> 0, value |-> 0, side |-> 0, units |-> 0]

\* ------------------------------------------------------------ engine ----

EngineInit ==
    /\ pc = "for"
    /\ n = 0
    /\ trade = NoTrade
    /\ holdings = EmptyDict
    /\ total_gains = 0
    /\ net_gains = 0
    /\ units_to_sell = 0
    /\ sell_price_per_unit = 0
    /\ result = << >>
    /\ exc = ""
    /\ msg = ""
    /\ holdings0 = EmptyDict
    /\ gains = << >>
    /\ iters = 0
    /\ oversold = {}

CliIdle ==
    /\ cols = NoCols
    /\ tradeList = << >>
    /\ nrows = 0
    /\ stdout = << >>
    /\ status = ""

\* calculate_capital_gains called on a list of ntrades trades
Init ==
    /\ ntrades \in 0 .. MaxTrades
    /\ EngineInit
    /\ cpc = "call"
    /\ CliIdle

\* for trade in trades, a buy: lines 101-108
Buy(t) ==
    /\ pc = "for"
    /\ n < ntrades
    /\ t.isBuy_
    /\ t.units_ # 0
    /\ LET h == SetDefault(holdings, t.stockType_)
           price_per_unit == PricePerUnit(t)
       IN  /\ holdings' = [h EXCEPT ![t.stockType_] =
                              DequeAppend(@, Lot(t.units_, price_per_unit, n + 1, t.units_))]
    /\ holdings0' = holdings'
    /\ trade' = t
    /\ n' = n + 1
    /\ UNCHANGED cli
    /\ UNCHANGED << pc, ntrades, total_gains, net_gains, units_to_sell,
                    sell_price_per_unit, result, exc, msg, gains, iters, oversold >>

\* for trade in trades, a sell up to the first test of the while: lines 101-111
SellStart(t) ==
    /\ pc = "for"
    /\ n < ntrades
    /\ ~ t.isBuy_
    /\ t.units_ # 0
    /\ holdings' = SetDefault(holdings, t.stockType_)
    /\ holdings0' = holdings'
    /\ trade' = t
    /\ n' = n + 1
    /\ units_to_sell' = t.units_
    /\ sell_price_per_unit' = PricePerUnit(t)
    /\ iters' = 0
    /\ pc' = "while"
    /\ UNCHANGED cli
    /\ UNCHANGED << ntrades, total_gains, net_gains, result, exc, msg,
                    gains, oversold >>

\* trade.value_ / trade.units_ with units_ == 0: lines 107 and 111 raise
\* ZeroDivisionError, which nothing in the function catches
DivZero(t) ==
    /\ pc = "for"
    /\ n < ntrades
    /\ t.units_ = 0
    /\ holdings' = SetDefault(holdings, t.stockType_)
    /\ holdings0' = holdings'
    /\ trade' = t
    /\ n' = n + 1
    /\ units_to_sell' = IF t.isBuy_ THEN units_to_sell ELSE t.units_
    /\ exc' = "ZeroDivisionError"
    /\ msg' = "float division by zero"
    /\ pc' = "raised"
    /\ UNCHANGED cli
    /\ UNCHANGED << ntrades, total_gains, net_gains, sell_price_per_unit,
                    result, gains, iters, oversold >>

\* while body, buy_units <= units_to_sell: lines 113-123
ConsumeWhole ==
    /\ pc = "while"
    /\ WhileCond(units_to_sell, holdings[trade.stockType_])
    /\ LET symbol == trade.stockType_
           lot    == Front(holdings[symbol])
           gain   == Gain(sell_price_per_unit, lot.price, lot.units)
       IN  /\ FullyConsumed(lot.units, units_to_sell)
           /\ net_gains' = net_gains + gain
           /\ total_gains' = AddTotal(total_gains, gain)
           /\ units_to_sell' = units_to_sell - lot.units
           /\ holdings' = [holdings EXCEPT ![symbol] = PopLeft(@)]
           /\ gains' = Append(gains, gain)
    /\ iters' = iters + 1
    /\ UNCHANGED cli
    /\ UNCHANGED << pc, ntrades, n, trade, sell_price_per_unit, result, exc, msg,
                    holdings0, oversold >>

\* while body, buy_units > units_to_sell: lines 113-115, 124-131
ConsumePart ==
    /\ pc = "while"
    /\ WhileCond(units_to_sell, holdings[trade.stockType_])
    /\ LET symbol == trade.stockType_
           lot    == Front(holdings[symbol])
           gain   == Gain(sell_price_per_unit, lot.price, units_to_sell)
       IN  /\ ~ FullyConsumed(lot.units, units_to_sell)
           /\ net_gains' = net_gains + gain
           /\ total_gains' = AddTotal(total_gains, gain)
           /\ holdings' = [holdings EXCEPT ![symbol] =
                              SetFront(@, Lot(lot.units - units_to_sell, lot.price,
                                              lot.id, lot.orig))]
           /\ units_to_sell' = 0
           /\ gains' = Append(gains, gain)
    /\ iters' = iters + 1
    /\ UNCHANGED cli
    /\ UNCHANGED << pc, ntrades, n, trade, sell_price_per_unit, result, exc, msg,
                    holdings0, oversold >>

\* variant of WhileExit that keeps the excess as a short lot
WhileExit_Short ==
    /\ pc = "while"
    /\ ~ WhileCond(units_to_sell, holdings[trade.stockType_])
    /\ pc' = "for"
    /\ oversold' = IF units_to_sell > 0 THEN oversold \cup {trade.stockType_} ELSE oversold
    /\ iters' = 0
    /\ holdings' = IF units_to_sell > 0
                   THEN [holdings EXCEPT ![trade.stockType_] =
                            << Lot(0 - units_to_sell, sell_price_per_unit, n, 0) >>]
                   ELSE holdings
    /\ holdings0' = holdings'
    /\ UNCHANGED cli
    /\ UNCHANGED << ntrades, n, trade, total_gains, net_gains,
                    units_to_sell, sell_price_per_unit, result, exc, msg, gains >>

\* the while condition is false: back to the for loop, line 113
WhileExit ==
    /\ pc = "while"
    /\ ~ WhileCond(units_to_sell, holdings[trade.stockType_])
    /\ pc' = "for"
    /\ oversold' = IF units_to_sell > 0 THEN oversold \cup {trade.stockType_} ELSE oversold
    /\ iters' = 0
    /\ holdings0' = holdings
    /\ UNCHANGED cli
    /\ UNCHANGED << ntrades, n, trade, holdings, total_gains, net_gains,
                    units_to_sell, sell_price_per_unit, result, exc, msg, gains >>

\* return round(net_gains, 2), round(total_gains, 2): line 133
Return ==
    /\ pc = "for"
    /\ n = ntrades
    /\ result' = << round2(net_gains, 1), round2(total_gains, 1) >>
    /\ pc' = "done"
    /\ UNCHANGED cli
    /\ UNCHANGED << ntrades, n, trade, holdings, total_gains, net_gains,
                    units_to_sell, sell_price_per_unit, exc, msg,
                    holdings0, gains, iters, oversold >>

Next ==
    \/ \E t \in TradeSet : Buy(t)
    \/ \E t \in TradeSet : SellStart(t)
    \/ \E t \in TradeSet : DivZero(t)
    \/ ConsumeWhole
    \/ ConsumePart
    \/ WhileExit
    \/ Return

Spec == Init /\ [][Next]_vars

FairSpec == Spec /\ WF_vars(Next)

\* --------------------------------------------------- lex_csv, __main__ ---
\* A csv cell is its text.  The substring test `key in x` and float(x) are
\* tabulated for the texts that occur.  The text of a number stands for the
\* number counted in the unit of the column it is read from: cents in the
\* value column, 1/UnitScale shares in the units column.  Column indices are
\* 1-based, 0 standing for "not found".

Keys == {"Symbol", "Total Value", "Side", "Units", "Buy", "Sell"}

\* the keys that are substrings of text x
KeysIn(x) ==
    CASE x = "Symbol"            -> {"Symbol"}
      [] x = "Total Value (AUD)" -> {"Total Value"}
      [] x = "Side"              -> {"Side"}
      [] x = "Units"             -> {"Units"}
      [] x = "Buy"               -> {"Buy"}
      [] x = "Sell"              -> {"Sell"}
      [] OTHER                   -> {}

NumberTexts == {"100", "125", "-1", "0", "2"}

\* float(x) succeeds
IsFloat(x) == x \in NumberTexts

\* float(x)
float(x) ==
    CASE x = "100" -> 100
      [] x = "125" -> 125
      [] x = "-1"  -> -1
      [] x = "0"   -> 0
      [] x = "2"   -> 2

abs(x) == IF x < 0 THEN -x ELSE x

Headings ==
    { << "Symbol", "Total Value (AUD)", "Side", "Units" >>,
      << "Date", "Symbol", "Units", "Side", "Total Value (AUD)" >>,
      << "Symbol", "Total Value (AUD)", "Side" >>,
      << "Name" >> }

Rows ==
    { << s, v, d, u >> : s \in {"AAA"}, v \in {"100", "125"},
                         d \in {"Buy", "Sell", "Hold"}, u \in {"-1", "0", "2", "n/a"} }
    \cup { << >>, << "AAA", "100", "Buy" >>,
           << "1 Jan", "AAA", "2", "Buy", "100" >> }

\* find_col: index of the first cell of heading that contains key, 0 when
\* the function raises ValueError instead
find_col(key, heading) ==
    LET hits == { i \in 1 .. Len(heading) : key \in KeysIn(heading[i]) }
    IN  IF hits = {} THEN 0
        ELSE CHOOSE i \in hits : \A j \in hits : i <= j

\* body of `for row in reader`, lines 71-83: the exception it raises ("" if
\* none), its message, and the trade appended otherwise
LexRowOutcome(row, c) ==
    LET Raise(e, m) == [exc |-> e, msg |-> m, trade |-> NoTrade]
    IN  IF c.value > Len(row) THEN Raise("IndexError", "list index out of range")
        ELSE IF ~ IsFloat(row[c.value])
             THEN Raise("ValueError", "could not convert string to float")
        ELSE IF c.symbol > Len(row) THEN Raise("IndexError", "list index out of range")
        ELSE IF c.units > Len(row) THEN Raise("IndexError", "list index out of range")
        ELSE IF ~ IsFloat(row[c.units])
             THEN Raise("ValueError", "could not convert string to float")
        ELSE IF c.side > Len(row) THEN Raise("IndexError", "list index out of range")
        ELSE IF "Buy" \in KeysIn(row[c.side])
             THEN [exc |-> "", msg |-> "",
                   trade |-> Trade(row[c.symbol], abs(float(row[c.units])), TRUE,
                                   float(row[c.value]))]
        ELSE IF "Sell" \in KeysIn(row[c.side])
             THEN [exc |-> "", msg |-> "",
                   trade |-> Trade(row[c.symbol], abs(float(row[c.units])), FALSE,
                                   float(row[c.value]))]
        ELSE Raise("ValueError", "Failed to parse 'Side'")

\* the program started with a file name
CliInit ==
    /\ ntrades = 0
    /\ EngineInit
    /\ cpc = "open"
    /\ CliIdle

\* open(filename) succeeds: line 60
LexOpen ==
    /\ cpc = "open"
    /\ cpc' = "heading"
    /\ UNCHANGED << engine, exc, msg, cols, tradeList, nrows, stdout, status >>

\* open(filename) on a missing file: line 60
LexOpenFail ==
    /\ cpc = "open"
    /\ exc' = "FileNotFoundError"
    /\ msg' = "No such file or directory"
    /\ cpc' = "except"
    /\ UNCHANGED << engine, cols, tradeList, nrows, stdout, status >>

\* next(reader) on a file without a first row: line 63
LexNoHeading ==
    /\ cpc = "heading"
    /\ exc' = "StopIteration"
    /\ msg' = ""
    /\ cpc' = "except"
    /\ UNCHANGED << engine, cols, tradeList, nrows, stdout, status >>

\* heading = next(reader) and the four find_col calls: lines 63-67
LexHeading(heading) ==
    /\ cpc = "heading"
    /\ LET stockSymbolCol == find_col("Symbol", heading)
           totalValueCol  == find_col("Total Value", heading)
           sideCol        == find_col("Side", heading)
           unitsCol       == find_col("Units", heading)
           missing == IF stockSymbolCol = 0 THEN "Heading 'Symbol' not found in CSV"
                      ELSE IF totalValueCol = 0 THEN "Heading 'Total Value' not found in CSV"
                      ELSE IF sideCol = 0 THEN "Heading 'Side' not found in CSV"
                      ELSE IF unitsCol = 0 THEN "Heading 'Units' not found in CSV"
                      ELSE ""
       IN  IF missing # ""
           THEN /\ exc' = "ValueError"
                /\ msg' = missing
                /\ cpc' = "except"
                /\ UNCHANGED cols
           ELSE /\ cols' = [symbol |-> stockSymbolCol, value |-> totalValueCol,
                            side |-> sideCol, units |-> unitsCol]
                /\ cpc' = "rows"
                /\ UNCHANGED << exc, msg >>
    /\ UNCHANGED << engine, tradeList, nrows, stdout, status >>

\* one iteration of `for row in reader`: lines 70-83
LexRow(row) ==
    /\ cpc = "rows"
    /\ nrows < MaxRows
    /\ nrows' = nrows + 1
    /\ LET o == LexRowOutcome(row, cols)
       IN  IF o.exc # ""
           THEN /\ exc' = o.exc
                /\ msg' = o.msg
                /\ cpc' = "except"
                /\ UNCHANGED tradeList
           ELSE /\ tradeList' = Append(tradeList, o.trade)
                /\ UNCHANGED << exc, msg, cpc >>
    /\ UNCHANGED << engine, cols, stdout, status >>

\* the reader is exhausted, lex_csv returns tradeList and
\* calculate_capital_gains is entered with it: lines 85, 143, 97-99
LexReturn ==
    /\ cpc = "rows"
    /\ cpc' = "calc"
    /\ ntrades' = Len(tradeList)
    /\ UNCHANGED << pc, n, trade, holdings, total_gains, net_gains,
                    units_to_sell, sell_price_per_unit, result,
                    holdings0, gains, iters, oversold >>
    /\ UNCHANGED << exc, msg, cols, tradeList, nrows, stdout, status >>

\* calculate_capital_gains raised: the exception reaches the try of __main__
CalcRaised ==
    /\ cpc = "calc"
    /\ pc = "raised"
    /\ cpc' = "except"
    /\ UNCHANGED << engine, exc, msg, cols, tradeList, nrows, stdout, status >>

\* the two prints after calculate_capital_gains returned: lines 143-145
MainPrint ==
    /\ cpc = "calc"
    /\ pc = "done"
    /\ stdout' = stdout \o << << "Net Capital Gains is: ", result[1] >>,
                              << "Total Capital Gains is: ", result[2] >> >>
    /\ status' = "exit 0"
    /\ cpc' = "exit"
    /\ UNCHANGED << engine, exc, msg, cols, tradeList, nrows >>

\* except (FileNotFoundError, StopIteration, ValueError) as e: print(e)
Caught(e) == e \in {"FileNotFoundError", "StopIteration", "ValueError"}

\* lines 146-147
MainExcept ==
    /\ cpc = "except"
    /\ Caught(exc)
    /\ stdout' = Append(stdout, << msg >>)
    /\ status' = "exit 0"
    /\ cpc' = "exit"
    /\ UNCHANGED << engine, exc, msg, cols, tradeList, nrows >>

\* an exception the except clause does not name ends the process with a
\* traceback: line 146
MainAbort ==
    /\ cpc = "except"
    /\ ~ Caught(exc)
    /\ status' = "traceback"
    /\ cpc' = "exit"
    /\ UNCHANGED << engine, exc, msg, cols, tradeList, nrows, stdout >>

\* the next trade of `for trade in trades`
NextTrade == tradeList[n + 1]

CliNext ==
    \/ LexOpen
    \/ LexOpenFail
    \/ LexNoHeading
    \/ \E heading \in Headings : LexHeading(heading)
    \/ \E row \in Rows : LexRow(row)
    \/ LexReturn
    \/ cpc = "calc" /\ n < ntrades /\ Buy(NextTrade)
    \/ cpc = "calc" /\ n < ntrades /\ SellStart(NextTrade)
    \/ cpc = "calc" /\ n < ntrades /\ DivZero(NextTrade)
    \/ cpc = "calc" /\ ConsumeWhole
    \/ cpc = "calc" /\ ConsumePart
    \/ cpc = "calc" /\ WhileExit
    \/ cpc = "calc" /\ Return
    \/ CalcRaised
    \/ MainPrint
    \/ MainExcept
    \/ MainAbort

CliSpec == CliInit /\ [][CliNext]_vars

\* -------------------------------------- the engine on a whole list ------
\* calculate_capital_gains(trades) for every list of at most MaxList trades

RECURSIVE ListsUpTo(_)
ListsUpTo(k) ==
    IF k = 0 THEN { << >> }
    ELSE LET shorter == ListsUpTo(k - 1)
         IN  shorter \cup { Append(l, t) : l \in { x \in shorter : Len(x) = k - 1 },
                                           t \in TradeSet }

ListInit ==
    /\ tradeList \in ListsUpTo(MaxList)
    /\ ntrades = Len(tradeList)
    /\ EngineInit
    /\ cpc = "call"
    /\ cols = NoCols
    /\ nrows = 0
    /\ stdout = << >>
    /\ status = ""

ListNext ==
    \/ n < ntrades /\ Buy(NextTrade)
    \/ n < ntrades /\ SellStart(NextTrade)
    \/ n < ntrades /\ DivZero(NextTrade)
    \/ ConsumeWhole
    \/ ConsumePart
    \/ WhileExit
    \/ Return

ListSpec == ListInit /\ [][ListNext]_vars

\* ------------------------------------------------------- properties ----

Min(a, b) == IF a <= b THEN a ELSE b

RECURSIVE Sum(_)
Sum(seq) == IF seq = << >> THEN 0 ELSE seq[1] + Sum(Tail(seq))

RECURSIVE SumNonNeg(_)
SumNonNeg(seq) ==
    IF seq = << >> THEN 0
    ELSE (IF seq[1] >= 0 THEN seq[1] ELSE 0) + SumNonNeg(Tail(seq))

RECURSIVE SumUnits(_)
SumUnits(q) == IF q = << >> THEN 0 ELSE q[1].units + SumUnits(Tail(q))

\* units of symbol s held in ledger h
Held(h, s) == IF s \in DOMAIN h THEN SumUnits(h[s]) ELSE 0

\* units left in queue q of the lot appended by buy number id
LeftOf(q, id) == SumUnits(SelectSeq(q, LAMBDA l : l.id = id))

LotIds(q) == { q[i].id : i \in 1 .. Len(q) }

\* the lot of q acquired first
Oldest(q) == CHOOSE l \in { q[i] : i \in 1 .. Len(q) } :
                 \A j \in 1 .. Len(q) : l.id <= q[j].id

\* a step that executes the body of the while loop once
BodyStep == pc = "while" /\ pc' = "while" /\ iters' = iters + 1

\* a step that appends a lot for a buy
BuyStep == pc = "for" /\ pc' = "for" /\ n' = n + 1

\* the while loop is about to be left
AtWhileExit == pc = "while" /\ ~ (units_to_sell > 0 /\ holdings[trade.stockType_] # << >>)

\* C1: every sell consumes the lots of its symbol oldest first. Queues are
\* in acquisition order and only the oldest remaining lot of a symbol is
\* ever short of the units it was bought with; each pass of the while body
\* takes min(lot units, units still to sell) from the oldest lot of the
\* symbol and from no other, and adds
\* round((sellUnitPrice - lotCost) * consumed, 2) to the gains.
C1_OldestFirst ==
    [][ /\ \A s \in DOMAIN holdings' :
              \A i, j \in 1 .. Len(holdings'[s]) :
                  i < j => /\ holdings'[s][i].id < holdings'[s][j].id
                           /\ holdings'[s][j].units = holdings'[s][j].orig
        /\ BodyStep =>
              LET s        == trade.stockType_
                  old      == Oldest(holdings[s])
                  consumed == Min(old.units, units_to_sell)
                  g        == round2((sell_price_per_unit - old.price) * consumed, UnitScale)
              IN  /\ gains' = Append(gains, g)
                  /\ net_gains' = net_gains + g
                  /\ units_to_sell' = units_to_sell - consumed
                  /\ \A id \in LotIds(holdings[s]) :
                        LeftOf(holdings'[s], id) =
                            IF id = old.id THEN old.units - consumed
                            ELSE LeftOf(holdings[s], id)
      ]_vars

\* a sell has consumed two lots bought at different prices
C1_Witness ==
    /\ pc = "while"
    /\ iters = 2
    /\ Len(gains) = 2
    /\ gains[1] # gains[2]
    /\ Len(holdings0[trade.stockType_]) = 2
    /\ holdings0[trade.stockType_][1].price # holdings0[trade.stockType_][2].price

\* C2: net_gains is the sum of all per-lot gains added so far, total_gains
\* the sum of the non-negative ones, so total_gains >= 0 and
\* total_gains >= net_gains after any prefix; the returned pair is these sums.
C2_GainSums ==
    /\ net_gains = Sum(gains)
    /\ total_gains = SumNonNeg(gains)
    /\ total_gains >= 0
    /\ total_gains >= net_gains
    /\ pc = "done" => result = << Sum(gains), SumNonNeg(gains) >>

\* the function returned after a loss and a gain were both realised
C2_Witness ==
    /\ pc = "done"
    /\ \E i, j \in 1 .. Len(gains) : gains[i] < 0 /\ gains[j] > 0
    /\ result[2] > result[1]

\* C3: a trade with units 0 makes calculate_capital_gains fail with an
\* InvalidTrade error.
C3_InvalidTrade ==
    (n > 0 /\ trade.units_ = 0) => (pc = "raised" /\ exc = "InvalidTrade")

\* C4: a sell of more units than the queue holds raises nothing, leaves the
\* loop when the queue is empty with one gain per consumed lot and nothing
\* more, never creates a lot with negative units, and a later buy of that
\* symbol is appended with all its units.
C4_OversellDropped ==
    [][ /\ \A s \in DOMAIN holdings' :
              \A i \in 1 .. Len(holdings'[s]) : holdings'[s][i].units >= 0
        /\ (pc = "for" /\ pc' = "while" /\ Held(holdings, trade'.stockType_) = 0) =>
              /\ exc' = ""
              /\ holdings'[trade'.stockType_] = << >>
              /\ units_to_sell' = trade'.units_
        /\ (AtWhileExit /\ units_to_sell > 0) =>
              /\ pc' = "for"
              /\ exc' = ""
              /\ holdings' = holdings
              /\ holdings[trade.stockType_] = << >>
              /\ iters = Len(holdings0[trade.stockType_])
              /\ net_gains' = net_gains
              /\ total_gains' = total_gains
              /\ gains' = gains
        /\ (BuyStep /\ trade'.stockType_ \in oversold) =>
              LET q == holdings'[trade'.stockType_]
              IN  /\ q[Len(q)].units = trade'.units_
                  /\ Held(holdings', trade'.stockType_) =
                        Held(holdings, trade'.stockType_) + trade'.units_
      ]_vars

\* a symbol was oversold and then bought again
C4_Witness ==
    /\ pc = "for"
    /\ \E s \in oversold : s \in DOMAIN holdings /\ holdings[s] # << >>

LoadErrors == {"FileNotFoundError", "StopIteration", "ValueError", "IndexError"}

\* C5: when lex_csv fails, the program prints a diagnostic, reports Net and
\* Total Capital Gains as 0 and does not abort.
C5_LenientLoad ==
    (cpc = "exit" /\ exc \in LoadErrors) =>
        /\ status = "exit 0"
        /\ \E i \in 1 .. Len(stdout) : stdout[i] = << msg >>
        /\ \E i \in 1 .. Len(stdout) : stdout[i] = << "Net Capital Gains is: ", 0 >>
        /\ \E i \in 1 .. Len(stdout) : stdout[i] = << "Total Capital Gains is: ", 0 >>

\* the input is one buy of u units followed by one sell of the same u units
\* of the same symbol, and the function has returned
SingleLotSold ==
    /\ pc = "done"
    /\ Len(tradeList) = 2
    /\ tradeList[1].isBuy_
    /\ ~ tradeList[2].isBuy_
    /\ tradeList[1].stockType_ = tradeList[2].stockType_
    /\ tradeList[1].units_ = tradeList[2].units_
    /\ tradeList[1].units_ > 0

\* round((sellPrice - buyPrice) * units, 2) of that input
SingleLotGain ==
    LET u         == tradeList[1].units_
        buyPrice  == round2(tradeList[1].value_ * UnitScale, u)
        sellPrice == round2(tradeList[2].value_ * UnitScale, u)
    IN  round2((sellPrice - buyPrice) * u, UnitScale)

\* C6 as stated: a single lot bought then fully sold returns
\* net == total == round((sellPrice - buyPrice) * units, 2).
C6_NetEqualsTotal ==
    SingleLotSold => (result[1] = SingleLotGain /\ result[2] = SingleLotGain)

\* C6 amended: a single lot bought then fully sold returns
\* net == round((sellPrice - buyPrice) * units, 2) and total == max(net, 0).
C6_NetAndTotal ==
    SingleLotSold =>
        /\ result[1] = SingleLotGain
        /\ result[2] = IF SingleLotGain >= 0 THEN SingleLotGain ELSE 0

\* a single lot was sold at a loss
C6_Witness == SingleLotSold /\ result[1] < 0 /\ result[2] = 0

\* C7: a sell that takes only part of the oldest lot leaves it at the front
\* with its units reduced by the units sold and its cost unchanged, the lots
\* behind it and every other symbol's queue as they were.
C7_PartialKeepsFront ==
    [][ (/\ BodyStep
         /\ units_to_sell < holdings[trade.stockType_][1].units) =>
            LET s == trade.stockType_
                q == holdings[s]
            IN  /\ DOMAIN holdings' = DOMAIN holdings
                /\ Len(holdings'[s]) = Len(q)
                /\ holdings'[s][1].units = q[1].units - units_to_sell
                /\ holdings'[s][1].price = q[1].price
                /\ holdings'[s][1].id = q[1].id
                /\ \A i \in 2 .. Len(q) : holdings'[s][i] = q[i]
                /\ \A x \in DOMAIN holdings : x # s => holdings'[x] = holdings[x]
      ]_vars

\* part of the front lot was sold while another lot waits behind it
C7_Witness ==
    /\ pc = "while"
    /\ iters >= 1
    /\ units_to_sell = 0
    /\ Len(holdings[trade.stockType_]) >= 2
    /\ holdings[trade.stockType_][1].units < holdings[trade.stockType_][1].orig

\* C8: the function always ends; every pass of the while body decreases
\* units_to_sell or the length of the queue, and a sell makes at most as
\* many passes as the queue had lots.
C8_Terminates ==
    /\ <>(pc \in {"done", "raised"})
    /\ [][ BodyStep =>
              \/ units_to_sell' < units_to_sell
              \/ Len(holdings'[trade.stockType_]) < Len(holdings[trade.stockType_])
         ]_vars
    /\ [](pc = "while" => iters <= Len(holdings0[trade.stockType_]))

\* the function returned after a sell that went through two lots
C8_Witness == pc = "done" /\ Len(gains) >= 2 /\ ~ trade.isBuy_

\* C9: no queue ever holds a lot without units; a lot whose units are all
\* sold is removed.
C9_LotsPositive ==
    \A s \in DOMAIN holdings :
        \A i \in 1 .. Len(holdings[s]) : holdings[s][i].units > 0

\* a sell ended exactly on the last unit of the last lot
C9_Witness ==
    /\ pc = "while"
    /\ iters >= 1
    /\ units_to_sell = 0
    /\ holdings[trade.stockType_] = << >>
    /\ holdings0[trade.stockType_] # << >>

\* C10: a buy of u units adds u to the units held of its symbol, a sell of
\* u units removes min(u, held), and no step changes another symbol's queue.
C10_UnitsConserved ==
    [][ /\ BuyStep =>
              /\ Held(holdings', trade'.stockType_) =
                    Held(holdings, trade'.stockType_) + trade'.units_
              /\ \A x \in DOMAIN holdings :
                    x # trade'.stockType_ => holdings'[x] = holdings[x]
        /\ pc = "while" =>
              /\ \A x \in DOMAIN holdings0 :
                    x # trade.stockType_ =>
                        (x \in DOMAIN holdings' /\ holdings'[x] = holdings0[x])
        /\ AtWhileExit =>
              LET s == trade.stockType_
                  h == Held(holdings0, s)
              IN  Held(holdings', s) = h - Min(trade.units_, h)
      ]_vars

\* a sell took units of one symbol while another symbol was held
C10_Witness ==
    /\ AtWhileExit
    /\ iters >= 1
    /\ \E x \in DOMAIN holdings : x # trade.stockType_ /\ holdings[x] # << >>

====
